---- MODULE Spec2Model ----
(***************************************************************************)
(* A model of the Spotify MCP server of playlist-librarian:                *)
(*   src/src/utils.py                  extract_playlist_id                 *)
(*   src/src/spotify/config.py         Config                              *)
(*   src/src/spotify/spotify_client.py SpotifyClientManager                *)
(*   src/src/spotify/server.py         the tools and the start-up sequence *)
(* Python strings are sequences of one-character strings, so that          *)
(* trimming, pattern matching and searching are computed, not assumed.     *)
(* The upstream service (spotipy) is a black box: each call either raises  *)
(* or returns data drawn from a small pool.                                *)
(***************************************************************************)
EXTENDS Integers, Sequences, FiniteSets, TLC

VARIABLES
    env,             \* os.environ: SPOTIFY_CLIENT_ID / SPOTIFY_CLIENT_SECRET
    pc,              \* position of server.main(): "start", "serving", "fatal"
    spotify_manager, \* server.py's global: None or a SpotifyClientManager
    client_manager,  \* a SpotifyClientManager held by a caller (src/main.py:12)
    last_auth,       \* history: result of the latest authenticate() on client_manager
    auth_calls,      \* history: number of authenticate() calls made so far
    ret              \* the latest operation: its name, argument, outcome, upstream calls

vars == <<env, pc, spotify_manager, client_manager, last_auth, auth_calls, ret>>

\* Python's None where an object is expected: the function with no fields
None == <<>>

\* Python's None where a str is expected: no str, not even '', equals it
NoStr == <<"None">>

------------------------------------------------------------------------------
(* Strings                                                                  *)

AlnumChars ==
    {"a", "b", "c", "d", "e", "f", "g", "h", "i", "j", "k", "l", "m", "n", "o",
     "p", "q", "r", "s", "t", "u", "v", "w", "x", "y", "z", "A", "B", "C", "D",
     "E", "F", "G", "H", "I", "J", "K", "L", "M", "N", "O", "P", "Q", "R", "S",
     "T", "U", "V", "W", "X", "Y", "Z", "0", "1", "2", "3", "4", "5", "6", "7",
     "8", "9"}

\* the characters str.strip() removes (the ASCII ones this model uses)
Whitespace == {" ", "\t", "\n"}

RECURSIVE LStrip(_)
LStrip(s) ==
    IF s # <<>> /\ Head(s) \in Whitespace THEN LStrip(Tail(s)) ELSE s

RECURSIVE RStrip(_)
RStrip(s) ==
    IF s # <<>> /\ s[Len(s)] \in Whitespace
    THEN RStrip(SubSeq(s, 1, Len(s) - 1))
    ELSE s

\* str.strip()
Strip(s) == RStrip(LStrip(s))

\* length of the playlist ID in all three patterns
IdLen == 22

\* [a-zA-Z0-9]{22} matched at position i of s
AlnumRunAt(s, i) ==
    /\ i >= 1
    /\ i + IdLen - 1 <= Len(s)
    /\ \A k \in i..(i + IdLen - 1) : s[k] \in AlnumChars

\* re.match(r'^[a-zA-Z0-9]{22}$', s): $ also matches before a final newline
MatchRawId(s) ==
    /\ AlnumRunAt(s, 1)
    /\ \/ Len(s) = IdLen
       \/ Len(s) = IdLen + 1 /\ s[IdLen + 1] = "\n"

\* the literal lit occurs in s at position i
LiteralAt(s, lit, i) ==
    /\ i >= 1
    /\ i + Len(lit) - 1 <= Len(s)
    /\ SubSeq(s, i, i + Len(lit) - 1) = lit

\* positions where  lit([a-zA-Z0-9]{22})  matches in s
MatchPositions(s, lit) ==
    {i \in 1..Len(s) : LiteralAt(s, lit, i) /\ AlnumRunAt(s, i + Len(lit))}

Min(S) == CHOOSE x \in S : \A y \in S : x <= y

\* re.search(lit + r'([a-zA-Z0-9]{22})', s).group(1), or NoStr when the
\* search returns None: the leftmost match
SearchGroup(s, lit) ==
    IF MatchPositions(s, lit) = {} THEN NoStr
    ELSE LET i == Min(MatchPositions(s, lit))
         IN  SubSeq(s, i + Len(lit), i + Len(lit) + IdLen - 1)

HTTPS_LITERAL ==
    <<"h", "t", "t", "p", "s", ":", "/", "/", "o", "p", "e", "n", ".", "s", "p",
      "o", "t", "i", "f", "y", ".", "c", "o", "m", "/", "p", "l", "a", "y", "l",
      "i", "s", "t", "/">>

URI_LITERAL ==
    <<"s", "p", "o", "t", "i", "f", "y", ":", "p", "l", "a", "y", "l", "i", "s",
      "t", ":">>

------------------------------------------------------------------------------
(* Results and exceptions                                                   *)

\* a returned value
Ok(v) == [kind |-> "ok", value |-> v, text |-> "", echo |-> <<>>]

\* a raised exception of class cls; str(e) is text with echo formatted in
Raise(cls, text, echo) ==
    [kind |-> cls, value |-> None, text |-> text, echo |-> echo]

NonEmptyText == "playlist_url_or_id must be a non-empty string"

InvalidFormatText ==
    "Invalid Spotify playlist URL or ID format: '{}'. Supported formats: HTTPS URL, Spotify URI, or raw playlist ID."

------------------------------------------------------------------------------
(* src/utils.py                                                             *)
\* extract_playlist_id with the URI pattern searched before the URL pattern
extract_playlist_id_uri_first(playlist_url_or_id) ==
    IF playlist_url_or_id = <<>>
    THEN Raise("SpotifyURLError", NonEmptyText, <<>>)
    ELSE LET url_or_id == Strip(playlist_url_or_id)
             https_match == SearchGroup(url_or_id, HTTPS_LITERAL)
             uri_match == SearchGroup(url_or_id, URI_LITERAL)
         IN  IF MatchRawId(url_or_id) THEN Ok(url_or_id)
             ELSE IF uri_match # NoStr THEN Ok(uri_match)
             ELSE IF https_match # NoStr THEN Ok(https_match)
             ELSE Raise("SpotifyURLError", InvalidFormatText, <<playlist_url_or_id>>)

\* extract_playlist_id with the cleaned input in the error message
extract_playlist_id_echo_cleaned(playlist_url_or_id) ==
    IF playlist_url_or_id = <<>>
    THEN Raise("SpotifyURLError", NonEmptyText, <<>>)
    ELSE LET url_or_id == Strip(playlist_url_or_id)
             https_match == SearchGroup(url_or_id, HTTPS_LITERAL)
             uri_match == SearchGroup(url_or_id, URI_LITERAL)
         IN  IF MatchRawId(url_or_id) THEN Ok(url_or_id)
             ELSE IF https_match # NoStr THEN Ok(https_match)
             ELSE IF uri_match # NoStr THEN Ok(uri_match)
             ELSE Raise("SpotifyURLError", InvalidFormatText, <<url_or_id>>)

extract_playlist_id(playlist_url_or_id) ==
    IF playlist_url_or_id = <<>>
    THEN Raise("SpotifyURLError", NonEmptyText, <<>>)
    ELSE LET url_or_id == Strip(playlist_url_or_id)
             https_match == SearchGroup(url_or_id, HTTPS_LITERAL)
             uri_match == SearchGroup(url_or_id, URI_LITERAL)
         IN  IF MatchRawId(url_or_id) THEN Ok(url_or_id)
             ELSE IF https_match # NoStr THEN Ok(https_match)
             ELSE IF uri_match # NoStr THEN Ok(uri_match)
             ELSE Raise("SpotifyURLError", InvalidFormatText, <<playlist_url_or_id>>)

------------------------------------------------------------------------------
(* src/spotify/config.py                                                    *)

\* os.getenv(name, ''): an unset variable reads as ''
GetEnv(e, name) == IF e[name] = NoStr THEN <<>> ELSE e[name]

MissingVarsText ==
    "Missing required environment variables: {}. Please set these variables in your environment or .env file."

\* Config(): _load_spotify_credentials over the environment e
Config(e) ==
    LET client_id == Strip(GetEnv(e, "SPOTIFY_CLIENT_ID"))
        client_secret == Strip(GetEnv(e, "SPOTIFY_CLIENT_SECRET"))
        missing_vars ==
            (IF client_id = <<>> THEN <<"SPOTIFY_CLIENT_ID">> ELSE <<>>)
            \o (IF client_secret = <<>> THEN <<"SPOTIFY_CLIENT_SECRET">> ELSE <<>>)
    IN  IF missing_vars # <<>>
        THEN Raise("ConfigError", MissingVarsText, <<missing_vars>>)
        ELSE Ok([spotify_client_id |-> client_id,
                 spotify_client_secret |-> client_secret])

------------------------------------------------------------------------------
(* src/spotify/spotify_client.py                                            *)

NotAuthenticatedText ==
    "Spotify client is not authenticated. Call authenticate() first."

\* SpotifyClientManager.__init__
SpotifyClientManager(client_id, client_secret) ==
    IF client_id = <<>>
    THEN Raise("SpotifyClientError", "client_id must be a non-empty string", <<>>)
    ELSE IF client_secret = <<>>
    THEN Raise("SpotifyClientError", "client_secret must be a non-empty string", <<>>)
    ELSE Ok([client_id |-> client_id,
             client_secret |-> client_secret,
             spotify_client |-> None])

\* what SpotifyClientCredentials(...) / spotipy.Spotify(...) may do
AuthOutcomes == {"ok", "SpotifyException", "Exception"}
\* authenticate with handlers that do not clear self._spotify_client
authenticate_keeps_client(self, outcome, serial) ==
    IF outcome = "ok"
    THEN [self |-> [self EXCEPT !.spotify_client = [handle |-> serial]],
          result |-> TRUE]
    ELSE [self |-> self, result |-> FALSE]

\* SpotifyClientManager.authenticate: the manager afterwards and the value
\* returned. A new spotipy.Spotify object is named by the serial number of
\* the call that made it.
authenticate(self, outcome, serial) ==
    IF outcome = "ok"
    THEN [self |-> [self EXCEPT !.spotify_client = [handle |-> serial]],
          result |-> TRUE]
    ELSE [self |-> [self EXCEPT !.spotify_client = None],
          result |-> FALSE]

\* SpotifyClientManager.get_client
get_client(self) ==
    IF self.spotify_client = None
    THEN Raise("SpotifyClientError", NotAuthenticatedText, <<>>)
    ELSE Ok(self.spotify_client)

\* one request to the upstream service
Call(api, arg, raised) == [api |-> api, arg |-> arg, raised |-> raised]

\* SpotifyClientManager.test_connection: the outcome and the upstream calls
test_connection(self, raises) ==
    IF self.spotify_client = None
    THEN [result |-> Raise("SpotifyClientError", NotAuthenticatedText, <<>>),
          calls |-> <<>>]
    ELSE [result |-> Ok(~raises),
          calls |-> <<Call("search", <<"t", "e", "s", "t">>, raises)>>]

------------------------------------------------------------------------------
(* src/spotify/server.py: the tools                                         *)

NotInitializedText == "Spotify client not initialized"

\* str(e) of an exception raised by the upstream service
UpstreamMessage == <<"u", "p", "s", "t", "r", "e", "a", "m">>

\* an upstream answer: the call raises, or returns data
Raises == [raises |-> TRUE, data |-> <<>>]
Returns(data) == [raises |-> FALSE, data |-> data]

\* Python truthiness of a str-or-None value
Truthy(s) == s # NoStr /\ s # <<>>
\* the loop of fetch_playlist without the test of the URI
RECURSIVE TrackUrisOfAnyTrack(_)
TrackUrisOfAnyTrack(items) ==
    IF items = <<>> THEN <<>>
    ELSE LET item == Head(items)
         IN  (IF item.track # None THEN <<item.track.uri>> ELSE <<>>)
             \o TrackUrisOfAnyTrack(Tail(items))

\* the loop of fetch_playlist over playlist_tracks['items']
RECURSIVE TrackUris(_)
TrackUris(items) ==
    IF items = <<>> THEN <<>>
    ELSE LET item == Head(items)
         IN  (IF item.track # None /\ Truthy(item.track.uri)
              THEN <<item.track.uri>> ELSE <<>>)
             \o TrackUris(Tail(items))

\* fetch_playlist(request) with the global manager mgr, when the upstream
\* answers up to playlist_tracks: the outcome and the upstream calls made
fetch_playlist(mgr, playlist_url_or_id, up) ==
    IF mgr = None
    THEN [result |-> Raise("SpotifyClientError", NotInitializedText, <<>>),
          calls |-> <<>>]
    ELSE LET extracted == extract_playlist_id(playlist_url_or_id)
             client == get_client(mgr)
         IN  IF extracted.kind = "SpotifyURLError"
             THEN [result |-> Raise("ValueError", extracted.text, extracted.echo),
                   calls |-> <<>>]
             ELSE IF client.kind = "SpotifyClientError"
             THEN [result |-> Raise("ValueError", client.text, client.echo),
                   calls |-> <<>>]
             ELSE IF up.raises
             THEN [result |-> Raise("ValueError", "Failed to fetch playlist: {}",
                                    <<UpstreamMessage>>),
                   calls |-> <<Call("playlist_tracks", extracted.value, TRUE)>>]
             ELSE [result |-> Ok([track_uris |-> TrackUris(up.data)]),
                   calls |-> <<Call("playlist_tracks", extracted.value, FALSE)>>]

\* the validation of get_track_details: the index of the first element that
\* is empty after strip(), or -1
RECURSIVE FirstBlank(_, _)
FirstBlank(track_ids, i) ==
    IF i > Len(track_ids) THEN -1
    ELSE IF Strip(track_ids[i]) = <<>> THEN i - 1
    ELSE FirstBlank(track_ids, i + 1)
\* the validation without strip(): only '' counts as empty
ValidateTrackIdsNoStrip(track_ids) ==
    IF track_ids = <<>>
    THEN Raise("ValueError", "track_ids cannot be empty", <<>>)
    ELSE IF \E i \in DOMAIN track_ids : track_ids[i] = <<>>
    THEN Raise("ValueError", "track_ids[{}] cannot be empty",
               <<(CHOOSE i \in DOMAIN track_ids : track_ids[i] = <<>>) - 1>>)
    ELSE Ok(track_ids)

\* the ValueError the validation raises, or Ok
ValidateTrackIds(track_ids) ==
    IF track_ids = <<>>
    THEN Raise("ValueError", "track_ids cannot be empty", <<>>)
    ELSE IF FirstBlank(track_ids, 1) >= 0
    THEN Raise("ValueError", "track_ids[{}] cannot be empty",
               <<FirstBlank(track_ids, 1)>>)
    ELSE Ok(track_ids)

\* the elements of a sequence
Range(seq) == {seq[i] : i \in DOMAIN seq}

\* artist_ids: the set built from tracks_data['tracks']
ArtistIdsOf(tracks) ==
    UNION {{a.id : a \in Range(t.artists)} : t \in {x \in Range(tracks) : x # None}}

\* album_ids: the set built from tracks_data['tracks']
AlbumIdsOf(tracks) ==
    {t.album.id : t \in {x \in Range(tracks) :
                            x # None /\ x.album # None /\ Truthy(x.album.id)}}

\* dict.get(key, default)
DictGet(d, key, default) == IF key \in DOMAIN d THEN d[key] ELSE default

\* artists_data: id -> {image_url, genres}, from artists_response['artists']
ArtistsData(artists) ==
    [id \in {a.id : a \in {x \in Range(artists) : x # None}} |->
        LET artist == artists[CHOOSE i \in DOMAIN artists :
                                /\ artists[i] # None /\ artists[i].id = id
                                /\ \A j \in DOMAIN artists :
                                      (artists[j] # None /\ artists[j].id = id) => j <= i]
        IN  [image_url |-> IF artist.images # <<>> THEN artist.images[1].url ELSE NoStr,
             genres |-> DictGet(artist, "genres", <<>>)]]

\* albums_data: id -> {label, copyrights}, from albums_response['albums']
AlbumsData(albums) ==
    [id \in {a.id : a \in {x \in Range(albums) : x # None}} |->
        LET album == albums[CHOOSE i \in DOMAIN albums :
                              /\ albums[i] # None /\ albums[i].id = id
                              /\ \A j \in DOMAIN albums :
                                    (albums[j] # None /\ albums[j].id = id) => j <= i]
        IN  [label |-> DictGet(album, "label", <<>>),
             copyrights |-> DictGet(album, "copyrights", <<>>)]]

\* dict.update: the fields of extra override those of d
Update(d, extra) == extra @@ d

\* the artists list built for one track
RECURSIVE ArtistDetails(_, _)
ArtistDetails(artists, artists_data) ==
    IF artists = <<>> THEN <<>>
    ELSE LET artist == Head(artists)
             artist_details == [uri |-> artist.uri, name |-> artist.name]
         IN  <<IF artist.id \in DOMAIN artists_data
               THEN Update(artist_details, artists_data[artist.id])
               ELSE artist_details>>
             \o ArtistDetails(Tail(artists), artists_data)

\* the entry appended to tracks for one non-null track
TrackSummary(track, artists_data, albums_data) ==
    LET album_cover_url ==
            IF track.album.images # <<>> THEN track.album.images[1].url ELSE NoStr
        album_details ==
            [uri |-> track.album.uri,
             name |-> track.album.name,
             album_type |-> track.album.album_type,
             cover_art_url |-> album_cover_url,
             release_date |-> track.album.release_date,
             release_date_precision |-> track.album.release_date_precision]
    IN  [name |-> track.name,
         duration_ms |-> track.duration_ms,
         album |-> IF track.album.id \in DOMAIN albums_data
                   THEN Update(album_details, albums_data[track.album.id])
                   ELSE album_details,
         artists |-> ArtistDetails(track.artists, artists_data)]
\* the final loop keeping only the tracks whose first artist was enriched
RECURSIVE ShapeTracksEnrichedOnly(_, _, _)
ShapeTracksEnrichedOnly(tracks, artists_data, albums_data) ==
    IF tracks = <<>> THEN <<>>
    ELSE (IF Head(tracks) # None
             /\ Head(tracks).artists[1].id \in DOMAIN artists_data
          THEN <<TrackSummary(Head(tracks), artists_data, albums_data)>>
          ELSE <<>>)
         \o ShapeTracksEnrichedOnly(Tail(tracks), artists_data, albums_data)

\* the final loop of get_track_details over tracks_data['tracks']
RECURSIVE ShapeTracks(_, _, _)
ShapeTracks(tracks, artists_data, albums_data) ==
    IF tracks = <<>> THEN <<>>
    ELSE (IF Head(tracks) # None
          THEN <<TrackSummary(Head(tracks), artists_data, albums_data)>>
          ELSE <<>>)
         \o ShapeTracks(Tail(tracks), artists_data, albums_data)

TrackDetailsFailure(calls) ==
    [result |-> Raise("ValueError", "Failed to fetch track details: {}",
                      <<UpstreamMessage>>),
     calls |-> calls]

\* get_track_details(request) with the global manager mgr, when the upstream
\* answers up.tracks, up.artists and up.albums to the three fetches
get_track_details(mgr, track_ids, up) ==
    IF mgr = None
    THEN [result |-> Raise("SpotifyClientError", NotInitializedText, <<>>),
          calls |-> <<>>]
    ELSE LET valid == ValidateTrackIds(track_ids)
             client == get_client(mgr)
             tracks == up.tracks.data
             artist_ids == ArtistIdsOf(tracks)
             album_ids == AlbumIdsOf(tracks)
             tracks_call == <<Call("tracks", track_ids, up.tracks.raises)>>
             artists_call ==
                 IF artist_ids # {}
                 THEN <<Call("artists", artist_ids, up.artists.raises)>> ELSE <<>>
             albums_call ==
                 IF album_ids # {}
                 THEN <<Call("albums", album_ids, up.albums.raises)>> ELSE <<>>
             artists_data ==
                 IF artist_ids # {} THEN ArtistsData(up.artists.data) ELSE <<>>
             albums_data ==
                 IF album_ids # {} THEN AlbumsData(up.albums.data) ELSE <<>>
         IN  IF valid.kind = "ValueError"
             THEN [result |-> valid, calls |-> <<>>]
             ELSE IF client.kind = "SpotifyClientError"
             THEN [result |-> Raise("ValueError", client.text, client.echo),
                   calls |-> <<>>]
             ELSE IF up.tracks.raises
             THEN TrackDetailsFailure(tracks_call)
             ELSE IF artist_ids # {} /\ up.artists.raises
             THEN TrackDetailsFailure(tracks_call \o artists_call)
             ELSE IF album_ids # {} /\ up.albums.raises
             THEN TrackDetailsFailure(tracks_call \o artists_call \o albums_call)
             ELSE [result |-> Ok([tracks |-> ShapeTracks(tracks, artists_data,
                                                         albums_data)]),
                   calls |-> tracks_call \o artists_call \o albums_call]

------------------------------------------------------------------------------
(* src/spotify/server.py: start-up                                          *)
\* initialize_spotify_client that logs a failed authentication and returns
initialize_spotify_client_no_raise(old, e, outcome, test_raises, serial) ==
    LET config == Config(e)
        made == SpotifyClientManager(config.value.spotify_client_id,
                                     config.value.spotify_client_secret)
        auth == authenticate(made.value, outcome, serial)
        test == test_connection(auth.self, test_raises)
    IN  IF config.kind = "ConfigError"
        THEN [manager |-> old, result |-> config, calls |-> <<>>,
              auth_called |-> FALSE]
        ELSE IF made.kind = "SpotifyClientError"
        THEN [manager |-> old, result |-> made, calls |-> <<>>,
              auth_called |-> FALSE]
        ELSE [manager |-> auth.self, result |-> Ok(None),
              calls |-> IF auth.result THEN test.calls ELSE <<>>,
              auth_called |-> TRUE]

\* initialize_spotify_client() when the global holds old: the global
\* afterwards, the outcome, the upstream calls and whether authenticate()
\* was called
initialize_spotify_client(old, e, outcome, test_raises, serial) ==
    LET config == Config(e)
        made == SpotifyClientManager(config.value.spotify_client_id,
                                     config.value.spotify_client_secret)
        auth == authenticate(made.value, outcome, serial)
        test == test_connection(auth.self, test_raises)
    IN  IF config.kind = "ConfigError"
        THEN [manager |-> old, result |-> config, calls |-> <<>>,
              auth_called |-> FALSE]
        ELSE IF made.kind = "SpotifyClientError"
        THEN [manager |-> old, result |-> made, calls |-> <<>>,
              auth_called |-> FALSE]
        ELSE IF auth.result
        THEN [manager |-> auth.self, result |-> Ok(None), calls |-> test.calls,
              auth_called |-> TRUE]
        ELSE [manager |-> auth.self,
              result |-> Raise("SpotifyClientError", "Authentication failed", <<>>),
              calls |-> <<>>, auth_called |-> TRUE]

\* main(): mcp.run() is reached when initialize_spotify_client() returned,
\* and the exception is raised again when it did not
main(init) == IF init.result.kind = "ok" THEN "serving" ELSE "fatal"

------------------------------------------------------------------------------
(* Bounds and inputs                                                        *)

MaxAuthCalls == 2   \* authenticate() calls in a run
MaxIds == 2         \* length of request.track_ids
MaxItems == 2       \* length of playlist_tracks['items']
MaxTracks == 2      \* length of tracks_data['tracks']

\* sequences over S of length at most n
SeqsUpTo(S, n) == UNION {[1..k -> S] : k \in 0..n}

ID_A ==
    <<"3", "7", "i", "9", "d", "Q", "Z", "F", "1", "D", "X", "c", "B", "W", "I",
      "G", "o", "Y", "B", "M", "5", "M">>

ID_B ==
    <<"0", "s", "D", "a", "h", "z", "O", "k", "M", "W", "O", "m", "L", "X", "f",
      "T", "M", "f", "2", "N", "4", "N">>

HTTP_LITERAL ==
    <<"h", "t", "t", "p", ":", "/", "/", "o", "p", "e", "n", ".", "s", "p", "o",
      "t", "i", "f", "y", ".", "c", "o", "m", "/", "p", "l", "a", "y", "l", "i",
      "s", "t", "/">>

NOT_A_PLAYLIST ==
    <<"n", "o", "t", "-", "a", "-", "p", "l", "a", "y", "l", "i", "s", "t">>

QUERY == <<"?", "s", "i", "=", "a", "1">>

Leads == {<<>>, <<" ", "\t">>, <<"x", "/">>}

Forms == {<<>>, HTTPS_LITERAL, URI_LITERAL, HTTP_LITERAL}

Bodies ==
    {<<>>, ID_A, SubSeq(ID_A, 1, IdLen - 1), ID_A \o <<"Z">>,
     [ID_A EXCEPT ![5] = "-"]}

Trails ==
    {<<>>, <<"\n">>, QUERY, <<" ">> \o URI_LITERAL \o ID_B,
     <<"&">> \o HTTPS_LITERAL \o ID_B}

\* the arguments extract_playlist_id is called with
ExtractInputs ==
    {l \o f \o b \o t : l \in Leads, f \in Forms, b \in Bodies, t \in Trails}
    \cup {NOT_A_PLAYLIST, <<" ", " ">>}

\* the request.playlist_url_or_id values the tool is called with
PlaylistInputs ==
    {<<>>, NOT_A_PLAYLIST, ID_A, <<" ">> \o ID_A \o <<"\n">>,
     HTTPS_LITERAL \o ID_B \o QUERY, URI_LITERAL \o ID_A}

\* playlist items: a null track, an empty URI, a null URI, two playable ones
ItemPool ==
    {[track |-> None],
     [track |-> [uri |-> <<>>]],
     [track |-> [uri |-> NoStr]],
     [track |-> [uri |-> <<"u", "1">>]],
     [track |-> [uri |-> <<"u", "2">>]]}

TrackIdPool == {<<>>, <<" ", "\t">>, <<"i", "d", "1">>}

ARTIST_1 == [id |-> <<"a", "1">>, uri |-> "spotify:artist:a1", name |-> "Artist 1"]
ARTIST_2 == [id |-> <<"a", "2">>, uri |-> "spotify:artist:a2", name |-> "Artist 2"]

TRACK_1 ==
    [name |-> "Track 1", duration_ms |-> 1000,
     album |-> [id |-> <<"l", "1">>, uri |-> "spotify:album:l1", name |-> "Album 1",
                album_type |-> "album", images |-> <<[url |-> <<"c", "1">>]>>,
                release_date |-> "2001-01-01", release_date_precision |-> "day"],
     artists |-> <<ARTIST_1>>]

TRACK_2 ==
    [name |-> "Track 2", duration_ms |-> 0,
     album |-> [id |-> NoStr, uri |-> "spotify:local:l2", name |-> "Album 2",
                album_type |-> "single", images |-> <<>>,
                release_date |-> "2002", release_date_precision |-> "year"],
     artists |-> <<ARTIST_1, ARTIST_2>>]

\* the entries of tracks_data['tracks']: null, or a track
TrackPool == {None, TRACK_1, TRACK_2}

\* what the upstream answers for one requested artist or album: a record
\* with every field, a record with no image and no optional field, or null
AnswerKinds == {"full", "bare", "null"}

\* the ids in a fixed order, for building a response list
IdOrder == <<<<"a", "1">>, <<"a", "2">>, <<"l", "1">>>>

ArtistAnswer(id, kind) ==
    IF kind = "null" THEN None
    ELSE IF kind = "bare" THEN [id |-> id, images |-> <<>>]
    ELSE [id |-> id, images |-> <<[url |-> <<"i", "m", "g">>]>>,
          genres |-> <<"rock">>]

AlbumAnswer(id, kind) ==
    IF kind = "null" THEN None
    ELSE IF kind = "bare" THEN [id |-> id]
    ELSE [id |-> id, label |-> <<"l", "b", "l">>, copyrights |-> <<"(c)">>]

\* the response list of a fetch ("artists" or "albums") of ids
RECURSIVE ResponseList(_, _, _, _)
ResponseList(api, ids, answer, i) ==
    IF i > Len(IdOrder) THEN <<>>
    ELSE (IF IdOrder[i] \in ids
          THEN <<IF api = "artists"
                 THEN ArtistAnswer(IdOrder[i], answer[IdOrder[i]])
                 ELSE AlbumAnswer(IdOrder[i], answer[IdOrder[i]])>>
          ELSE <<>>)
         \o ResponseList(api, ids, answer, i + 1)

\* what the upstream returns to a fetch, given its behaviour
Answered(api, ids, choice) ==
    IF choice.raises THEN Raises
    ELSE Returns(ResponseList(api, ids, choice.answer, 1))

\* the upstream's behaviour on a fetch of ids: it raises, or answers each id
FetchChoices(ids) ==
    {[raises |-> TRUE, answer |-> [i \in ids |-> "null"]]}
    \cup {[raises |-> FALSE, answer |-> f] : f \in [ids -> AnswerKinds]}

\* the fetch that is not reached
NoFetch == [raises |-> TRUE, answer |-> <<>>]

------------------------------------------------------------------------------
(* The state machine                                                        *)

\* the record of an operation: its name, argument, the upstream's behaviour,
\* the outcome (a value or an exception) and the upstream calls it made
Ret(op, arg, up, r, calls) ==
    [op |-> op, arg |-> arg, up |-> up, kind |-> r.kind, value |-> r.value,
     text |-> r.text, echo |-> r.echo, calls |-> calls]

\* no operation has been called, or the caller has taken the last outcome
NoCall == Ret("none", None, None, Ok(None), <<>>)

ClientIdValues == {NoStr, <<" ">>, <<" ", "c", "i", "d", "\n">>}

ClientSecretValues == {NoStr, <<"\t">>, <<"s", "e", "c">>}

Init ==
    /\ env \in [SPOTIFY_CLIENT_ID : ClientIdValues,
                 SPOTIFY_CLIENT_SECRET : ClientSecretValues]
    /\ pc = "start"
    /\ spotify_manager = None
    /\ client_manager = None
    /\ last_auth = "never"
    /\ auth_calls = 0
    /\ ret = NoCall

\* the process has not exited, and no call is in progress: the callers and
\* the server's dispatch make one call at a time
Running == pc # "fatal" /\ ret.op = "none"

\* a caller uses utils.extract_playlist_id on its own
ExtractPlaylistId ==
    /\ Running /\ pc = "start"
    /\ spotify_manager = None /\ client_manager = None
    /\ \E s \in ExtractInputs :
           ret' = Ret("extract_playlist_id", s, None, extract_playlist_id(s), <<>>)
    /\ UNCHANGED <<env, pc, spotify_manager, client_manager, last_auth, auth_calls>>

\* a caller constructs a SpotifyClientManager of its own (as src/main.py does)
Construct ==
    /\ Running /\ pc = "start" /\ spotify_manager = None
    /\ \E client_id \in {<<>>, <<"c", "i", "d">>},
          client_secret \in {<<>>, <<"s", "e", "c">>} :
           LET made == SpotifyClientManager(client_id, client_secret)
           IN  /\ ret' = Ret("SpotifyClientManager", <<client_id, client_secret>>,
                             None, made, <<>>)
               /\ IF made.kind = "ok"
                  THEN client_manager' = made.value /\ last_auth' = "never"
                  ELSE UNCHANGED <<client_manager, last_auth>>
    /\ UNCHANGED <<env, pc, spotify_manager, auth_calls>>

\* client_manager.authenticate()
Authenticate ==
    /\ Running /\ client_manager # None
    /\ auth_calls < MaxAuthCalls
    /\ \E outcome \in AuthOutcomes :
           LET auth == authenticate(client_manager, outcome, auth_calls + 1)
           IN  /\ client_manager' = auth.self
               /\ last_auth' = IF auth.result THEN "true" ELSE "false"
               /\ ret' = Ret("authenticate", None, outcome, Ok(auth.result), <<>>)
    /\ auth_calls' = auth_calls + 1
    /\ UNCHANGED <<env, pc, spotify_manager>>

\* client_manager.get_client()
GetClient ==
    /\ Running /\ client_manager # None
    /\ ret' = Ret("get_client", None, None, get_client(client_manager), <<>>)
    /\ UNCHANGED <<env, pc, spotify_manager, client_manager, last_auth, auth_calls>>

\* client_manager.test_connection()
TestConnection ==
    /\ Running /\ client_manager # None
    /\ \E raises \in BOOLEAN :
           LET test == test_connection(client_manager, raises)
           IN  /\ test.calls = <<>> => ~raises
               /\ ret' = Ret("test_connection", None, raises, test.result, test.calls)
    /\ UNCHANGED <<env, pc, spotify_manager, client_manager, last_auth, auth_calls>>

\* a caller runs server.initialize_spotify_client() and catches what it raises
InitializeSpotifyClient ==
    /\ Running /\ pc = "start" /\ client_manager = None
    /\ auth_calls < MaxAuthCalls
    /\ \E outcome \in AuthOutcomes, test_raises \in BOOLEAN :
           LET init == initialize_spotify_client(spotify_manager, env, outcome,
                                                 test_raises, auth_calls + 1)
           IN  /\ init.calls = <<>> => ~test_raises
               /\ ~init.auth_called => outcome = "ok"
               /\ spotify_manager' = init.manager
               /\ auth_calls' = IF init.auth_called THEN auth_calls + 1 ELSE auth_calls
               /\ ret' = Ret("initialize_spotify_client", None,
                             [auth |-> outcome, test_raises |-> test_raises],
                             init.result, init.calls)
    /\ UNCHANGED <<env, pc, client_manager, last_auth>>

\* the process runs server.main(): initialization, then mcp.run()
Main ==
    /\ Running /\ pc = "start" /\ client_manager = None
    /\ auth_calls < MaxAuthCalls
    /\ \E outcome \in AuthOutcomes, test_raises \in BOOLEAN :
           LET init == initialize_spotify_client(spotify_manager, env, outcome,
                                                 test_raises, auth_calls + 1)
           IN  /\ init.calls = <<>> => ~test_raises
               /\ ~init.auth_called => outcome = "ok"
               /\ spotify_manager' = init.manager
               /\ auth_calls' = IF init.auth_called THEN auth_calls + 1 ELSE auth_calls
               /\ pc' = main(init)
               /\ ret' = Ret("main", None,
                             [auth |-> outcome, test_raises |-> test_raises],
                             init.result, init.calls)
    /\ UNCHANGED <<env, client_manager, last_auth>>
\* fetch_playlist that authenticates again before it fetches
FetchPlaylistReauth ==
    /\ Running /\ client_manager = None
    /\ \E arg \in PlaylistInputs, outcome \in AuthOutcomes :
           LET again == IF spotify_manager = None THEN None
                        ELSE authenticate(spotify_manager, outcome,
                                          auth_calls + 1).self
               done == fetch_playlist(again, arg, Raises)
           IN  /\ spotify_manager' = again
               /\ auth_calls' = auth_calls + 1
               /\ ret' = Ret("fetch_playlist", arg, Raises, done.result, done.calls)
    /\ UNCHANGED <<env, pc, client_manager, last_auth>>

\* the tool fetch_playlist is invoked: by mcp.run(), or by a caller
FetchPlaylist ==
    /\ Running /\ client_manager = None
    /\ \E arg \in PlaylistInputs :
        \E up \in IF fetch_playlist(spotify_manager, arg, Raises).calls = <<>>
                  THEN {Raises}
                  ELSE {Raises} \cup {Returns(d) : d \in SeqsUpTo(ItemPool, MaxItems)} :
           LET done == fetch_playlist(spotify_manager, arg, up)
           IN  ret' = Ret("fetch_playlist", arg, up, done.result, done.calls)
    /\ UNCHANGED <<env, pc, spotify_manager, client_manager, last_auth, auth_calls>>

\* the tool get_track_details is invoked: by mcp.run(), or by a caller
GetTrackDetails ==
    /\ Running /\ client_manager = None
    /\ \E track_ids \in SeqsUpTo(TrackIdPool, MaxIds) :
        \E t \in IF get_track_details(spotify_manager, track_ids,
                      [tracks |-> Raises, artists |-> NoFetch,
                       albums |-> NoFetch]).calls = <<>>
                 THEN {Raises}
                 ELSE {Raises} \cup {Returns(d) : d \in SeqsUpTo(TrackPool, MaxTracks)} :
        \E a \in IF t.raises \/ ArtistIdsOf(t.data) = {}
                 THEN {NoFetch} ELSE FetchChoices(ArtistIdsOf(t.data)) :
        \E b \in IF t.raises \/ AlbumIdsOf(t.data) = {}
                    \/ (ArtistIdsOf(t.data) # {} /\ a.raises)
                 THEN {NoFetch} ELSE FetchChoices(AlbumIdsOf(t.data)) :
           LET up == [tracks |-> t,
                      artists |-> Answered("artists", ArtistIdsOf(t.data), a),
                      albums |-> Answered("albums", AlbumIdsOf(t.data), b)]
               done == get_track_details(spotify_manager, track_ids, up)
           IN  ret' = Ret("get_track_details", track_ids,
                          [tracks |-> t, artists |-> a, albums |-> b],
                          done.result, done.calls)
    /\ UNCHANGED <<env, pc, spotify_manager, client_manager, last_auth, auth_calls>>

\* the caller takes the outcome of the call it made
Return ==
    /\ pc # "fatal" /\ ret.op # "none"
    /\ ret' = NoCall
    /\ UNCHANGED <<env, pc, spotify_manager, client_manager, last_auth, auth_calls>>

Next ==
    \/ ExtractPlaylistId
    \/ Construct
    \/ Authenticate
    \/ GetClient
    \/ TestConnection
    \/ InitializeSpotifyClient
    \/ Main
    \/ FetchPlaylist
    \/ GetTrackDetails
    \/ Return

Spec == Init /\ [][Next]_vars

------------------------------------------------------------------------------
(* Properties                                                               *)

\* the session of manager m is Live: it holds a session handle
Live(m) == m # None /\ m.spotify_client # None

ToolOps == {"fetch_playlist", "get_track_details"}

\* s is empty after trimming whitespace
IsBlank(s) == \A k \in DOMAIN s : s[k] \in Whitespace

\* v is a CatalogId: 22 characters, all in [A-Za-z0-9]
IsCatalogId(v) == Len(v) = 22 /\ \A k \in DOMAIN v : v[k] \in AlnumChars

\* s holds lit followed by a CatalogId, starting at position i
FormAt(s, lit, i) ==
    /\ i + Len(lit) + 21 <= Len(s)
    /\ SubSeq(s, i, i + Len(lit) - 1) = lit
    /\ IsCatalogId(SubSeq(s, i + Len(lit), i + Len(lit) + 21))

HasForm(s, lit) == \E i \in 1..Len(s) : FormAt(s, lit, i)

\* the CatalogId after the first occurrence of the form in s
FirstId(s, lit) ==
    LET i == CHOOSE j \in 1..Len(s) :
                 FormAt(s, lit, j) /\ \A k \in 1..(j - 1) : ~FormAt(s, lit, k)
    IN  SubSeq(s, i + Len(lit), i + Len(lit) + 21)

\* s, once trimmed, is in none of the three supported forms
MatchesNoForm(s) ==
    /\ ~IsCatalogId(Strip(s))
    /\ ~HasForm(s, HTTPS_LITERAL)
    /\ ~HasForm(s, URI_LITERAL)

\* C1: on a manager, get_client() returns the session handle exactly when the
\* most recent authenticate() returned true, and that handle is the one this
\* call made; it raises SpotifyClientError when authenticate() was never
\* called or last returned false. authenticate() returns a boolean and never
\* raises.
C1_GetClientIffLastAuthenticateSucceeded ==
    /\ client_manager # None =>
          /\ get_client(client_manager).kind = "ok" <=> last_auth = "true"
          /\ last_auth = "true" =>
                get_client(client_manager).value = [handle |-> auth_calls]
          /\ last_auth # "true" =>
                /\ get_client(client_manager).kind = "SpotifyClientError"
                /\ get_client(client_manager).text = NotAuthenticatedText
    /\ ret.op = "get_client" =>
          /\ ret.kind = "ok" <=> last_auth = "true"
          /\ ret.kind \in {"ok", "SpotifyClientError"}
    /\ ret.op = "authenticate" =>
          /\ ret.kind = "ok"
          /\ ret.value \in BOOLEAN
          /\ ret.value <=> ret.up = "ok"
          /\ ret.value <=> last_auth = "true"

\* C1 witness: get_client() fails after a second authenticate() that failed
C1_Witness ==
    /\ ret.op = "get_client"
    /\ ret.kind = "SpotifyClientError"
    /\ last_auth = "false"
    /\ auth_calls = 2

\* C2 (as claimed): while the session is not Live, every tool invocation is
\* rejected with the not-initialized or the not-authenticated error and makes
\* no upstream call.
C2_NotLiveRejectedAsNotInitialized ==
    (ret.op \in ToolOps /\ ~Live(spotify_manager)) =>
        /\ ret.kind # "ok"
        /\ ret.calls = <<>>
        /\ ret.text \in {NotInitializedText, NotAuthenticatedText}

\* C3 (as claimed): every failure of a tool reaches the caller as ValueError.
C3_EveryToolFailureIsValueError ==
    (ret.op \in ToolOps /\ ret.kind # "ok") => ret.kind = "ValueError"

\* C4: with a Live session, get_track_details on an empty list, or on a list
\* with an element that is blank after trimming, raises a validation error
\* and makes no upstream call; for a blank element the error names the
\* lowest blank index (counted from 0).
C4_BlankTrackIdsRejectedBeforeUpstream ==
    (/\ ret.op = "get_track_details"
     /\ Live(spotify_manager)
     /\ (ret.arg = <<>> \/ \E i \in DOMAIN ret.arg : IsBlank(ret.arg[i]))) =>
        /\ ret.kind = "ValueError"
        /\ ret.calls = <<>>
        /\ ret.arg = <<>> =>
              ret.text = "track_ids cannot be empty" /\ ret.echo = <<>>
        /\ ret.arg # <<>> =>
              /\ ret.text = "track_ids[{}] cannot be empty"
              /\ \E i \in DOMAIN ret.arg :
                    /\ IsBlank(ret.arg[i])
                    /\ \A j \in 1..(i - 1) : ~IsBlank(ret.arg[j])
                    /\ ret.echo = <<i - 1>>

\* C4 witness: a Live session rejected ["id1", " \t"], naming index 1
C4_Witness ==
    /\ ret.op = "get_track_details"
    /\ Live(spotify_manager)
    /\ Len(ret.arg) = 2
    /\ ~IsBlank(ret.arg[1])
    /\ IsBlank(ret.arg[2])
    /\ ret.kind = "ValueError"
    /\ ret.echo = <<1>>

\* C5: main() reaches mcp.run() only when the configuration gave a client id
\* and a client secret that are non-empty after trimming and authenticate()
\* returned true; when a secret is missing or blank, or authentication
\* fails, main() ends in an exception and mcp.run() is not reached.
C5_ServesOnlyAfterConfigAndAuthentication ==
    /\ pc = "serving" =>
          /\ ~IsBlank(GetEnv(env, "SPOTIFY_CLIENT_ID"))
          /\ ~IsBlank(GetEnv(env, "SPOTIFY_CLIENT_SECRET"))
          /\ Live(spotify_manager)
          /\ spotify_manager.client_id # <<>>
          /\ spotify_manager.client_secret # <<>>
    /\ ret.op = "main" =>
          /\ pc \in {"serving", "fatal"}
          /\ pc = "serving" <=> ret.kind = "ok"
          /\ pc = "serving" => ret.up.auth = "ok"
          /\ (\/ IsBlank(GetEnv(env, "SPOTIFY_CLIENT_ID"))
              \/ IsBlank(GetEnv(env, "SPOTIFY_CLIENT_SECRET"))) =>
                pc = "fatal" /\ ret.kind = "ConfigError"
          /\ ret.up.auth # "ok" => pc = "fatal"

\* C5 witness: main() is serving although the connection test failed
C5_Witness ==
    /\ pc = "serving"
    /\ ret.op = "main"
    /\ ret.up.test_raises

\* C6: extract_playlist_id returns a raw 22-character alphanumeric ID
\* unchanged; otherwise, for an input holding the URL form, the ID of its
\* first occurrence; otherwise, for an input holding the URI form, the ID of
\* its first occurrence. Every value returned is a CatalogId.
C6_ExtractOrderAndCatalogId ==
    ret.op = "extract_playlist_id" =>
        /\ ret.kind = "ok" => IsCatalogId(ret.value)
        /\ IsCatalogId(ret.arg) => ret.kind = "ok" /\ ret.value = ret.arg
        /\ (~IsCatalogId(ret.arg) /\ HasForm(ret.arg, HTTPS_LITERAL)) =>
              ret.kind = "ok" /\ ret.value = FirstId(ret.arg, HTTPS_LITERAL)
        /\ (/\ ~IsCatalogId(ret.arg)
            /\ ~HasForm(ret.arg, HTTPS_LITERAL)
            /\ HasForm(ret.arg, URI_LITERAL)) =>
              ret.kind = "ok" /\ ret.value = FirstId(ret.arg, URI_LITERAL)

\* C6 witness: an input holding the URI form of one ID and, after it, the
\* URL form of another gave the ID of the URL form
C6_Witness ==
    /\ ret.op = "extract_playlist_id"
    /\ ret.kind = "ok"
    /\ HasForm(ret.arg, HTTPS_LITERAL)
    /\ HasForm(ret.arg, URI_LITERAL)
    /\ FirstId(ret.arg, URI_LITERAL) # FirstId(ret.arg, HTTPS_LITERAL)
    /\ ret.value = FirstId(ret.arg, HTTPS_LITERAL)

\* C7 (as claimed): for an input in none of the three forms,
\* extract_playlist_id raises SpotifyURLError, returns no ID, and the message
\* echoes the untrimmed input and enumerates the supported formats.
C7_NoFormRaisesWithEchoAndFormats ==
    (ret.op = "extract_playlist_id" /\ MatchesNoForm(ret.arg)) =>
        /\ ret.kind = "SpotifyURLError"
        /\ ret.value = None
        /\ ret.text = InvalidFormatText
        /\ ret.echo = <<ret.arg>>

\* C7 (amended): for an input in none of the three forms,
\* extract_playlist_id raises SpotifyURLError and returns no ID; for a
\* non-empty input the message echoes the untrimmed input and enumerates the
\* supported formats; for the empty string the message is the fixed text
\* "playlist_url_or_id must be a non-empty string".
C7_NoFormRaisesEmptyInputApart ==
    (ret.op = "extract_playlist_id" /\ MatchesNoForm(ret.arg)) =>
        /\ ret.kind = "SpotifyURLError"
        /\ ret.value = None
        /\ ret.arg # <<>> =>
              ret.text = InvalidFormatText /\ ret.echo = <<ret.arg>>
        /\ ret.arg = <<>> =>
              ret.text = NonEmptyText /\ ret.echo = <<>>

\* C7 witness: an input with surrounding whitespace was rejected and echoed
\* with its whitespace
C7_Witness ==
    /\ ret.op = "extract_playlist_id"
    /\ ret.kind = "SpotifyURLError"
    /\ ret.arg # <<>>
    /\ ~IsBlank(ret.arg)
    /\ Strip(ret.arg) # ret.arg
    /\ ret.echo = <<ret.arg>>

\* the item has a track whose URI is a non-empty string
Playable(item) ==
    item.track # None /\ item.track.uri # NoStr /\ item.track.uri # <<>>

NonNull(track) == track # None

\* C9: with a Live session and valid track_ids, get_track_details fails only
\* when an upstream call raises; when it succeeds it returns one summary for
\* each non-null entry of the upstream tracks list, in the same order,
\* whatever the artist and album fetches returned.
C9_OneSummaryPerNonNullTrackInOrder ==
    ret.op = "get_track_details" =>
        /\ (/\ Live(spotify_manager)
            /\ ret.arg # <<>>
            /\ \A i \in DOMAIN ret.arg : ~IsBlank(ret.arg[i])
            /\ ret.kind # "ok") =>
              \E i \in DOMAIN ret.calls : ret.calls[i].raised
        /\ ret.kind = "ok" =>
              LET entries == SelectSeq(ret.up.tracks.data, NonNull)
                  tracks == ret.value.tracks
              IN  /\ Len(tracks) = Len(entries)
                  /\ \A i \in 1..Len(entries) :
                        /\ tracks[i].name = entries[i].name
                        /\ tracks[i].duration_ms = entries[i].duration_ms
                        /\ tracks[i].album.uri = entries[i].album.uri
                        /\ Len(tracks[i].artists) = Len(entries[i].artists)
                        /\ \A k \in 1..Len(entries[i].artists) :
                              tracks[i].artists[k].uri = entries[i].artists[k].uri

\* C9 witness: a null entry and a track whose artist fetch returned no record
\* for some id gave exactly one summary
C9_Witness ==
    /\ ret.op = "get_track_details"
    /\ ret.kind = "ok"
    /\ Len(ret.up.tracks.data) = 2
    /\ ret.up.tracks.data[1] = None
    /\ ret.up.tracks.data[2] # None
    /\ \E id \in DOMAIN ret.up.artists.answer : ret.up.artists.answer[id] = "null"
    /\ Len(ret.value.tracks) = 1

\* C10: while the session is Live, a tool invocation, whatever its outcome,
\* leaves the global manager and its session handle as they were and calls
\* authenticate() no more.
C10_ToolsLeaveLiveSessionUnchanged ==
    [][(ret'.op \in ToolOps /\ Live(spotify_manager)) =>
          /\ spotify_manager' = spotify_manager
          /\ Live(spotify_manager')
          /\ auth_calls' = auth_calls]_vars

\* C10 witness: served by mcp.run() with a Live session, a tool failed with
\* an upstream error
C10_Witness ==
    /\ pc = "serving"
    /\ Live(spotify_manager)
    /\ ret.op \in ToolOps
    /\ ret.kind = "ValueError"
    /\ ret.calls # <<>>

====
